---- MODULE Spec2Model ----
(***************************************************************************)
(* Model of the railway network scripts:                                   *)
(*   network/build network.py            normalize_name, main              *)
(*   analysis/assign_provinces_by_geo.py haversine, main                   *)
(*   analysis/build and plot the network.py  build_networkx_graph, main    *)
(* A character string is a sequence of one-character tokens; a CSV cell is *)
(* a record [kind, val] with kind "nan" (blank cell), "num" (a number) or  *)
(* "str" (text that is not a number).                                      *)
(***************************************************************************)
EXTENDS Integers, Sequences, FiniteSets, TLC

VARIABLES
    \* ---- network/build network.py : main
    pc,               \* position of main: index, nodes, tracks, done, failed, idle
    stations_df,      \* rows of stations.csv
    ntracks,          \* len(tracks_df)
    tracks_df,        \* rows of tracks.csv the edge loop has read so far
    i,                \* position of the running iterrows() loop over stations_df
    name_to_id,       \* dict: normalised name -> station_id
    G_nodes,          \* G.nodes: station_id -> attribute record
    G_edges,          \* G.edges(keys=True, data=True) of the MultiDiGraph
    edges_added,
    missing_stations, \* list of raw labels
    log,              \* what main has printed: sequence of [tag, n]
    stations_for_map, \* station_id of the entries of stations_for_map
    edges_for_map,    \* the entries of edges_for_map
    rail_edges_total,
    \* ---- normalize_name applied to a label, then to its own result
    n_pc, n_in, n_once, n_twice,
    \* ---- analysis/assign_provinces_by_geo.py : main
    g_pc, cities, unique_stations, g_idx, filled, no_coords,
    \* ---- analysis/build and plot the network.py : build_networkx_graph, main
    p_pc, p_stations, p_edges, p_i, P_nodes, P_adj, stats

mapVars  == <<stations_for_map, edges_for_map, rail_edges_total>>
netVars  == <<pc, stations_df, ntracks, tracks_df, i, name_to_id, G_nodes, G_edges,
              edges_added, missing_stations, log, mapVars>>
normVars == <<n_pc, n_in, n_once, n_twice>>
geoVars  == <<g_pc, cities, unique_stations, g_idx, filled, no_coords>>
plotVars == <<p_pc, p_stations, p_edges, p_i, P_nodes, P_adj, stats>>
vars     == <<netVars, normVars, geoVars, plotVars>>

----------------------------------------------------------------------------
(* Bounds of the model *)
MaxStations == 2    \* rows of stations.csv
MaxTracks == 2      \* rows of tracks.csv
MaxLen == 3         \* characters of a label given to normalize_name
MaxCities == 2      \* rows of the city table
MaxGeoStations == 2 \* rows of station_dataset.csv
MaxPlotStations == 2
MaxPlotEdges == 2

SeqsUpTo(S, n) == UNION {[1..k -> S] : k \in 0..n}

----------------------------------------------------------------------------
(* CSV cells *)
NaN == [kind |-> "nan", val |-> 0]
Num(x) == [kind |-> "num", val |-> x]
Txt == [kind |-> "str", val |-> 0]
None == [kind |-> "none", val |-> 0]
PyInt(x) == [kind |-> "int", val |-> x]

\* pd.isna / pd.notna of a cell
isna(c) == c.kind = "nan"
notna(c) == ~isna(c)

\* the statistics record of the plot script before it is computed
NoStats ==
    [nodes |-> 0, edges |-> 0, connected_components |-> 0,
     density |-> [num |-> 0, den |-> 1]]

(* A label cell: blank (NaN) or a string *)
NaNLabel == [kind |-> "nan", str |-> <<>>]
Lab(s) == [kind |-> "str", str |-> s]

----------------------------------------------------------------------------
(* normalize_name *)

\* unicodedata.normalize('NFKC', s), character by character, on the characters
\* of the model: the ideographic space U+3000 becomes a space, the fullwidth
\* "A" (U+FF21) becomes "A", the fullwidth "(" (U+FF08) becomes "(".
NFKCChar(c) ==
    CASE c = "U+3000" -> " "
      [] c = "U+FF21" -> "A"
      [] c = "U+FF08" -> "("
      [] OTHER -> c

NFKC(s) == [k \in 1..Len(s) |-> NFKCChar(s[k])]

\* \s of the regular expression and of str.strip()
IsSpace(c) == c \in {" ", "U+3000"}

\* the character class of the second re.sub
IsPunct(c) == c \in {"(", ")", "[", "]", "\\", "/", "-", ".", ",", "\""}

RECURSIVE LStrip(_)
LStrip(s) == IF s # <<>> /\ IsSpace(Head(s)) THEN LStrip(Tail(s)) ELSE s

RECURSIVE RStrip(_)
RStrip(s) ==
    IF s # <<>> /\ IsSpace(s[Len(s)]) THEN RStrip(SubSeq(s, 1, Len(s) - 1)) ELSE s

\* s.strip()
Strip(s) == RStrip(LStrip(s))

\* re.sub(r'\s+', ' ', s): every maximal run of whitespace becomes one space
RECURSIVE CollapseSpaces(_)
CollapseSpaces(s) ==
    IF s = <<>> THEN <<>>
    ELSE IF IsSpace(Head(s))
         THEN <<" ">> \o CollapseSpaces(LStrip(s))
         ELSE <<Head(s)>> \o CollapseSpaces(Tail(s))

\* re.sub(r'[...]+', '', s): the punctuation characters are removed
RemovePunct(s) == SelectSeq(s, LAMBDA c : ~IsPunct(c))

LowerChar(c) ==
    CASE c = "A" -> "a"
      [] c = "B" -> "b"
      [] c = "C" -> "c"
      [] OTHER -> c

\* s.lower()
Lower(s) == [k \in 1..Len(s) |-> LowerChar(s[k])]

normalize_name(name) ==
    IF name.kind = "nan" THEN <<>>
    ELSE Lower(RemovePunct(CollapseSpaces(Strip(NFKC(name.str)))))

----------------------------------------------------------------------------
(* network/build network.py : main *)

StationIds == {0, 1, 2}
StationNames == {NaNLabel, Lab(<<"A">>), Lab(<<"b">>)}
StationRows ==
    [station_id : StationIds, station_name : StationNames,
     province : {"P1"}, latitude : {Num(30)}, longitude : {Num(120)}]

TrackLabels == {NaNLabel, Lab(<<"a", " ">>), Lab(<<"b">>), Lab(<<"c">>)}
\* the length, year and type cells of a row
TrackCells ==
    { [length |-> Num(10), year |-> Num(1990), type |-> "rail pass"],
      [length |-> Num(20), year |-> NaN,       type |-> "road"],
      [length |-> Num(10), year |-> Txt,       type |-> "tram"],
      [length |-> Num(20), year |-> Num(1991), type |-> "rail_both"],
      [length |-> Num(10), year |-> Num(1990), type |-> "rail"] }

\* a dict with one more item
Put(d, k, v) == [x \in DOMAIN d \cup {k} |-> IF x = k THEN v ELSE d[x]]
EmptyDict == [x \in {} |-> 0]

\* d.get(k): None, or the value found
DictGet(d, k) == IF k \in DOMAIN d THEN PyInt(d[k]) ELSE None

\* no test of the identifiers at all
Truthy_always(x) == TRUE

\* truth value of what name_to_id.get returned
Truthy(x) == x.kind # "none" /\ x.val # 0

type_mapping ==
    [t \in {"rail_both", "rail_good", "rail pass", "road"} |->
        IF t = "rail pass" THEN "rail_pass" ELSE t]

\* map() without the fillna: a type that is no key of the table is lost
type_standardized_no_fillna(t) == IF t \in DOMAIN type_mapping THEN type_mapping[t] ELSE ""

\* tracks_df['type'].map(type_mapping).fillna(tracks_df['type']), for one row
type_standardized(t) == IF t \in DOMAIN type_mapping THEN type_mapping[t] ELSE t

\* int(year_val): raises ValueError on text that is not a number
IntRaises(c) == c.kind = "str"

\* a blank year replaced by a default
year_int_default(c) == IF notna(c) THEN PyInt(c.val) ELSE PyInt(0)

\* year_val, year_int of the edge loop
year_int(c) == IF notna(c) THEN PyInt(c.val) ELSE None

\* MultiDiGraph.new_edge_key: the number of edges u -> v, edges are never removed
new_edge_key(E, u, v) == Cardinality({e \in E : e.u = u /\ e.v = v})

\* latitude and longitude exchanged
NodeAttrs_swapped(row) ==
    [name |-> row.station_name, province |-> row.province,
     latitude |-> row.longitude, longitude |-> row.latitude]

NodeAttrs(row) ==
    [name |-> row.station_name, province |-> row.province,
     latitude |-> row.latitude, longitude |-> row.longitude]

NoAttrs ==
    [name |-> NaNLabel, province |-> "", latitude |-> NaN, longitude |-> NaN]

\* G.add_edge creates the endpoints that are not yet nodes
add_edge_nodes(N, u, v) ==
    [x \in DOMAIN N \cup {u, v} |-> IF x \in DOMAIN N THEN N[x] ELSE NoAttrs]

\* only the start label is reported
missing_append_start_only(ms, start_id, end_id, start_name, end_name) ==
    ms \o (IF ~Truthy(start_id) THEN <<start_name>> ELSE <<>>)

\* the else branch of the edge loop
missing_append(ms, start_id, end_id, start_name, end_name) ==
    (ms \o (IF ~Truthy(start_id) THEN <<start_name>> ELSE <<>>))
        \o (IF ~Truthy(end_id) THEN <<end_name>> ELSE <<>>)

NetInit ==
    /\ pc = "index"
    /\ stations_df \in SeqsUpTo(StationRows, MaxStations)
    /\ ntracks \in 0..MaxTracks
    /\ tracks_df = <<>>
    /\ i = 1
    /\ name_to_id = EmptyDict
    /\ G_nodes = EmptyDict
    /\ G_edges = {}
    /\ edges_added = 0
    /\ missing_stations = <<>>
    /\ log = << [tag |-> "stations loaded", n |-> Len(stations_df)],
                [tag |-> "track records loaded", n |-> ntracks] >>
    /\ stations_for_map = {} /\ edges_for_map = {} /\ rail_edges_total = 0
    \* the other scripts are not running
    /\ n_pc = "idle" /\ n_in = NaNLabel /\ n_once = <<>> /\ n_twice = <<>>
    /\ g_pc = "idle" /\ cities = <<>> /\ unique_stations = <<>> /\ g_idx = 0
    /\ filled = 0 /\ no_coords = 0
    /\ p_pc = "idle" /\ p_stations = <<>> /\ p_edges = <<>> /\ p_i = 0
    /\ P_nodes = EmptyDict /\ P_adj = EmptyDict /\ stats = NoStats

\* one iteration of the loop that fills name_to_id
IndexStation ==
    /\ pc = "index" /\ i <= Len(stations_df)
    /\ LET row == stations_df[i]
           normalized == normalize_name(row.station_name)
       IN name_to_id' = Put(name_to_id, normalized, row.station_id)
    /\ i' = i + 1
    /\ UNCHANGED <<pc, stations_df, ntracks, tracks_df, G_nodes, G_edges,
                   edges_added, missing_stations, log>>
    /\ UNCHANGED <<mapVars, normVars, geoVars, plotVars>>

EndIndexLoop ==
    /\ pc = "index" /\ i > Len(stations_df)
    /\ pc' = "nodes" /\ i' = 1
    /\ UNCHANGED <<stations_df, ntracks, tracks_df, name_to_id, G_nodes, G_edges,
                   edges_added, missing_stations, log>>
    /\ UNCHANGED <<mapVars, normVars, geoVars, plotVars>>

\* one iteration of the loop that adds the nodes
AddNode ==
    /\ pc = "nodes" /\ i <= Len(stations_df)
    /\ LET row == stations_df[i]
       IN G_nodes' = Put(G_nodes, row.station_id, NodeAttrs(row))
    /\ i' = i + 1
    /\ UNCHANGED <<pc, stations_df, ntracks, tracks_df, name_to_id, G_edges,
                   edges_added, missing_stations, log>>
    /\ UNCHANGED <<mapVars, normVars, geoVars, plotVars>>

EndNodeLoop ==
    /\ pc = "nodes" /\ i > Len(stations_df)
    /\ pc' = "tracks" /\ i' = 1
    /\ UNCHANGED <<stations_df, ntracks, tracks_df, name_to_id, G_nodes, G_edges,
                   edges_added, missing_stations, log>>
    /\ UNCHANGED <<mapVars, normVars, geoVars, plotVars>>

\* one iteration of the edge loop, on the next row of tracks.csv
TrackRow ==
    /\ pc = "tracks" /\ Len(tracks_df) < ntracks
    /\ \E start_name \in TrackLabels, end_name \in TrackLabels, cells \in TrackCells :
        LET row == [start_station |-> start_name, end_station |-> end_name,
                    length |-> cells.length, year |-> cells.year, type |-> cells.type,
                    edge_id |-> Len(tracks_df) + 1]
            start_id == DictGet(name_to_id, normalize_name(start_name))
            end_id == DictGet(name_to_id, normalize_name(end_name))
        IN /\ tracks_df' = Append(tracks_df, row)
           /\ IF Truthy(start_id) /\ Truthy(end_id)
              THEN IF notna(row.year) /\ IntRaises(row.year)
                   THEN \* except Exception: return False
                        /\ pc' = "failed"
                        /\ log' = Append(log, [tag |-> "unexpected error: ValueError",
                                                n |-> 0])
                        /\ UNCHANGED <<G_nodes, G_edges, edges_added, missing_stations>>
                   ELSE /\ G_edges' = G_edges \cup
                              {[u |-> start_id.val, v |-> end_id.val,
                                key |-> new_edge_key(G_edges, start_id.val, end_id.val),
                                length |-> row.length,
                                year |-> year_int(row.year),
                                year_raw |-> row.year,
                                type |-> type_standardized(row.type),
                                edge_id |-> row.edge_id]}
                        /\ G_nodes' = add_edge_nodes(G_nodes, start_id.val, end_id.val)
                        /\ edges_added' = edges_added + 1
                        /\ UNCHANGED <<pc, missing_stations, log>>
              ELSE /\ missing_stations' =
                        missing_append(missing_stations, start_id, end_id,
                                       start_name, end_name)
                   /\ UNCHANGED <<pc, G_nodes, G_edges, edges_added, log>>
    /\ UNCHANGED <<stations_df, ntracks, i, name_to_id>>
    /\ UNCHANGED <<mapVars, normVars, geoVars, plotVars>>

\* after the edge loop: the two diagnostics, then the end of main
unique_missing == {missing_stations[k] : k \in 1..Len(missing_stations)}

Finish ==
    /\ pc = "tracks" /\ Len(tracks_df) = ntracks
    /\ pc' = "map"
    /\ log' = (log \o << [tag |-> "edges added", n |-> edges_added] >>)
                \o (IF missing_stations # <<>>
                    THEN << [tag |-> "stations not found",
                             n |-> Cardinality(unique_missing)] >>
                    ELSE <<>>)
    /\ UNCHANGED <<stations_df, ntracks, tracks_df, i, name_to_id, G_nodes, G_edges,
                   edges_added, missing_stations>>
    /\ UNCHANGED <<mapVars, normVars, geoVars, plotVars>>

\* edge_data.get('type', '').lower().find('rail') != -1, on the types of the model
contains_rail(t) == t \in {"rail", "rail pass", "rail_pass", "rail_both", "rail_good"}

\* the nodes whose latitude and longitude are both present
has_coordinates(N, x) == notna(N[x].latitude) /\ notna(N[x].longitude)

\* the edges the collection loop keeps for the map
rail_edges(E) == {e \in E : contains_rail(e.type)}

\* the non-rail edges removed from the graph while collecting
graph_after_collection_filtered(E) == rail_edges(E)

\* the graph after the collection loop: `continue` skips an edge that is not
\* rail, nothing is removed from G
graph_after_collection(E) == E

\* stations_for_map, edges_for_map and the map itself; stations_map_df has no
\* 'latitude' column when stations_for_map is empty, and main ends in its
\* except branch
PrepareMap ==
    /\ pc = "map"
    /\ stations_for_map' = {x \in DOMAIN G_nodes : has_coordinates(G_nodes, x)}
    /\ rail_edges_total' = Cardinality(rail_edges(G_edges))
    /\ edges_for_map' =
          {[edge_id |-> e.edge_id, type |-> e.type, length |-> e.length,
            year |-> e.year, year_raw |-> e.year_raw] :
             e \in {d \in rail_edges(G_edges) :
                       has_coordinates(G_nodes, d.u) /\ has_coordinates(G_nodes, d.v)}}
    /\ IF stations_for_map' = {}
       THEN /\ pc' = "failed"
            /\ log' = Append(log, [tag |-> "unexpected error: KeyError", n |-> 0])
       ELSE /\ pc' = "analysis"
            /\ log' = Append(log, [tag |-> "rail edges", n |-> rail_edges_total'])
    /\ G_edges' = graph_after_collection(G_edges)
    /\ UNCHANGED <<stations_df, ntracks, tracks_df, i, name_to_id, G_nodes,
                   edges_added, missing_stations>>
    /\ UNCHANGED <<normVars, geoVars, plotVars>>

\* the pairs of nodes an edge joins, in both directions: G.to_undirected()
to_undirected(E) == {<<e.u, e.v>> : e \in E} \cup {<<e.v, e.u>> : e \in E}

\* the nodes reached from the set R along the links L
RECURSIVE reach(_, _)
reach(R, L) ==
    LET more == R \cup {l[2] : l \in {m \in L : m[1] \in R}}
    IN IF more = R THEN R ELSE reach(more, L)

\* nx.connected_components
connected_components(N, L) == {reach({x}, L) : x \in N}

\* the links followed from the smaller to the larger station_id only
number_directed_components(N, L) ==
    Cardinality({reach({x}, {l \in L : l[1] < l[2]}) : x \in N})

\* nx.number_connected_components
number_connected_components(N, L) == Cardinality(connected_components(N, L))

\* len(max(nx.connected_components(G), key=len))
largest_component(N, L) ==
    LET cs == connected_components(N, L)
    IN CHOOSE n \in {Cardinality(c) : c \in cs} : \A c \in cs : Cardinality(c) <= n

\* len(G.edges()) and G.number_of_edges(): every edge, rail or not
net_number_of_edges(E) == Cardinality(E)

\* the connectivity analysis and the end of main
Analysis ==
    /\ pc = "analysis"
    /\ pc' = "done"
    /\ LET N == DOMAIN G_nodes
           L == to_undirected(G_edges)
           components == number_connected_components(N, L)
       IN log' =
            (log \o << [tag |-> "nodes", n |-> Cardinality(N)],
                       [tag |-> "edges", n |-> net_number_of_edges(G_edges)] >>)
              \o (IF net_number_of_edges(G_edges) > 0
                  THEN << [tag |-> "connected components", n |-> components] >>
                         \o (IF components = 1 THEN <<>>
                             ELSE << [tag |-> "largest component",
                                      n |-> largest_component(N, L)] >>)
                  ELSE <<>>)
    /\ UNCHANGED <<stations_df, ntracks, tracks_df, i, name_to_id, G_nodes, G_edges,
                   edges_added, missing_stations>>
    /\ UNCHANGED <<mapVars, normVars, geoVars, plotVars>>

NetNext ==
    \/ IndexStation \/ EndIndexLoop \/ AddNode \/ EndNodeLoop \/ TrackRow \/ Finish
    \/ PrepareMap \/ Analysis

----------------------------------------------------------------------------
(* normalize_name applied to a label and then to its own result *)

NormChars == {"a", "B", " ", "-", "U+3000", "U+FF08"}
NormInputs == {NaNLabel} \cup {Lab(s) : s \in SeqsUpTo(NormChars, MaxLen)}

NormInit ==
    /\ n_pc = "start" /\ n_in \in NormInputs /\ n_once = <<>> /\ n_twice = <<>>
    \* the other scripts are not running
    /\ pc = "idle" /\ stations_df = <<>> /\ ntracks = 0 /\ tracks_df = <<>>
    /\ i = 0 /\ name_to_id = EmptyDict /\ G_nodes = EmptyDict /\ G_edges = {}
    /\ edges_added = 0 /\ missing_stations = <<>> /\ log = <<>>
    /\ stations_for_map = {} /\ edges_for_map = {} /\ rail_edges_total = 0
    /\ g_pc = "idle" /\ cities = <<>> /\ unique_stations = <<>> /\ g_idx = 0
    /\ filled = 0 /\ no_coords = 0
    /\ p_pc = "idle" /\ p_stations = <<>> /\ p_edges = <<>> /\ p_i = 0
    /\ P_nodes = EmptyDict /\ P_adj = EmptyDict /\ stats = NoStats

NormalizeOnce ==
    /\ n_pc = "start"
    /\ n_once' = normalize_name(n_in)
    /\ n_pc' = "once"
    /\ UNCHANGED <<n_in, n_twice>>
    /\ UNCHANGED <<netVars, geoVars, plotVars>>

NormalizeTwice ==
    /\ n_pc = "once"
    /\ n_twice' = normalize_name(Lab(n_once))
    /\ n_pc' = "twice"
    /\ UNCHANGED <<n_in, n_once>>
    /\ UNCHANGED <<netVars, geoVars, plotVars>>

NormNext == NormalizeOnce \/ NormalizeTwice

----------------------------------------------------------------------------
(* analysis/assign_provinces_by_geo.py *)

\* 4 * sin(d/2)^2 for a difference d of whole degrees of the model's grid
SinSqHalf4(d) ==
    LET a == IF d < 0 THEN -d ELSE d
    IN CASE a = 0 -> 0
         [] a = 60 -> 1
         [] a = 90 -> 2
         [] a = 120 -> 3
         [] a = 180 -> 4

\* 2 * cos(lat) on the model's grid
Cos2(lat) ==
    CASE lat = 0 -> 2
      [] lat = 60 -> 1
      [] lat = -60 -> 1

\* R * 2 * arcsin(sqrt(h/16)), R = 6371.0, rounded to the kilometre, h = 0..16
ArcKm ==
    <<3220, 4605, 5706, 6672, 7559, 8398, 9209, 10008, 10806, 11617, 12457,
      13343, 14309, 15411, 16795, 20015>>

\* haversine of one station against one city; NaN in, NaN out
haversine(lon1, lat1, lon2, lat2) ==
    IF isna(lon1) \/ isna(lat1) \/ isna(lon2) \/ isna(lat2) THEN NaN
    ELSE LET a16 == 4 * SinSqHalf4(lat2.val - lat1.val)
                    + Cos2(lat1.val) * Cos2(lat2.val) * SinSqHalf4(lon2.val - lon1.val)
         IN Num(IF a16 = 0 THEN 0 ELSE ArcKm[a16])

\* the last smallest instead of the first
argmin_last(d) ==
    IF \E k \in 1..Len(d) : isna(d[k])
    THEN CHOOSE k \in 1..Len(d) : isna(d[k]) /\ \A j \in 1..(k - 1) : notna(d[j])
    ELSE CHOOSE k \in 1..Len(d) :
            /\ \A j \in 1..Len(d) : d[k].val <= d[j].val
            /\ \A j \in (k + 1)..Len(d) : d[j].val > d[k].val

\* np.argmin: the first NaN if there is one, else the first smallest; 1-based
argmin(d) ==
    IF \E k \in 1..Len(d) : isna(d[k])
    THEN CHOOSE k \in 1..Len(d) : isna(d[k]) /\ \A j \in 1..(k - 1) : notna(d[j])
    ELSE CHOOSE k \in 1..Len(d) :
            /\ \A j \in 1..Len(d) : d[k].val <= d[j].val
            /\ \A j \in 1..(k - 1) : d[j].val > d[k].val

\* float(cell) raises ValueError on text that is not a number
FloatRaises(c) == c.kind = "str"

PROVINCE_NAME_MAP == [p \in {"HEBEI"} |-> "Hebei Sheng"]
province_cn(p) == IF p \in DOMAIN PROVINCE_NAME_MAP THEN PROVINCE_NAME_MAP[p] ELSE p

\* cities.dropna(subset=['Lat', 'Long'])
dropna(rows) == SelectSeq(rows, LAMBDA r : notna(r.Lat) /\ notna(r.Long))

\* stations.drop_duplicates(subset=['station_id']): the first row of each id
RECURSIVE drop_duplicates(_)
drop_duplicates(rows) ==
    IF rows = <<>> THEN <<>>
    ELSE LET init == SubSeq(rows, 1, Len(rows) - 1)
             last == rows[Len(rows)]
         IN IF \E k \in 1..Len(init) : init[k].station_id = last.station_id
            THEN drop_duplicates(init)
            ELSE Append(drop_duplicates(init), last)

\* the result columns as they are before the loop
ResultColumns(r) ==
    [station_id |-> r.station_id, longitude |-> r.longitude, latitude |-> r.latitude,
     province_code |-> "", province_name |-> "", prov_assign_method |-> "",
     nearest_city |-> "", distance_to_city_km |-> NaN]

GeoStationRows ==
    [station_id : {1, 2},
     latitude : {NaN, Txt, Num(0), Num(60)},
     longitude : {NaN, Num(60), Num(120)}]

CityRows ==
    { [Name |-> c[1], Province |-> c[2], Lat |-> lat, Long |-> lon] :
        c \in {<<"CityX", "HEBEI">>, <<"CityY", "ProvB">>},
        lat \in {NaN, Num(0), Num(60)}, lon \in {Num(0), Num(60), Num(120)} }

GeoInit ==
    /\ g_pc = "loop"
    /\ \E rows \in SeqsUpTo(CityRows, MaxCities) : cities = dropna(rows)
    /\ \E rows \in SeqsUpTo(GeoStationRows, MaxGeoStations) :
          unique_stations =
             LET u == drop_duplicates(rows) IN [k \in 1..Len(u) |-> ResultColumns(u[k])]
    /\ g_idx = 1
    /\ filled = 0
    /\ no_coords = 0
    \* the other scripts are not running
    /\ pc = "idle" /\ stations_df = <<>> /\ ntracks = 0 /\ tracks_df = <<>>
    /\ i = 0 /\ name_to_id = EmptyDict /\ G_nodes = EmptyDict /\ G_edges = {}
    /\ edges_added = 0 /\ missing_stations = <<>> /\ log = <<>>
    /\ stations_for_map = {} /\ edges_for_map = {} /\ rail_edges_total = 0
    /\ n_pc = "idle" /\ n_in = NaNLabel /\ n_once = <<>> /\ n_twice = <<>>
    /\ p_pc = "idle" /\ p_stations = <<>> /\ p_edges = <<>> /\ p_i = 0
    /\ P_nodes = EmptyDict /\ P_adj = EmptyDict /\ stats = NoStats

\* one iteration of the assignment loop
AssignStation ==
    /\ g_pc = "loop" /\ g_idx <= Len(unique_stations)
    /\ LET row == unique_stations[g_idx]
       IN IF FloatRaises(row.longitude) \/ FloatRaises(row.latitude)
          THEN /\ unique_stations' =
                    [unique_stations EXCEPT ![g_idx].prov_assign_method = "no_coords"]
               /\ no_coords' = no_coords + 1
               /\ g_idx' = g_idx + 1
               /\ UNCHANGED <<g_pc, filled>>
          ELSE IF cities = <<>>
               THEN \* np.argmin of an empty array raises ValueError, nothing catches it
                    /\ g_pc' = "crashed"
                    /\ UNCHANGED <<unique_stations, g_idx, filled, no_coords>>
               ELSE LET dists == [k \in 1..Len(cities) |->
                                     haversine(row.longitude, row.latitude,
                                               cities[k].Long, cities[k].Lat)]
                        nearest_idx == argmin(dists)
                    IN /\ unique_stations' =
                            [unique_stations EXCEPT
                               ![g_idx].province_code = cities[nearest_idx].Province,
                               ![g_idx].province_name =
                                   province_cn(cities[nearest_idx].Province),
                               ![g_idx].prov_assign_method = "assigned_by_nearest_city",
                               ![g_idx].nearest_city = cities[nearest_idx].Name,
                               ![g_idx].distance_to_city_km = dists[nearest_idx]]
                       /\ filled' = filled + 1
                       /\ g_idx' = g_idx + 1
                       /\ UNCHANGED <<g_pc, no_coords>>
    /\ UNCHANGED cities
    /\ UNCHANGED <<netVars, normVars, plotVars>>

\* the loop is over: the table and the report are written
GeoFinish ==
    /\ g_pc = "loop" /\ g_idx > Len(unique_stations)
    /\ g_pc' = "done"
    /\ UNCHANGED <<cities, unique_stations, g_idx, filled, no_coords>>
    /\ UNCHANGED <<netVars, normVars, plotVars>>

GeoNext == AssignStation \/ GeoFinish

----------------------------------------------------------------------------
(* analysis/build and plot the network.py : build_networkx_graph, main *)

PlotStationRows ==
    [station_id : {1, 2}, longitude : {Num(120)}, latitude : {Num(30)},
     province_code : {"HEBEI", ""}]
PlotEndpoints == {1, 2, 3}
PlotLengths == {Num(10), Num(20)}

PlotInit ==
    /\ p_pc = "nodes"
    /\ p_stations \in SeqsUpTo(PlotStationRows, MaxPlotStations)
    /\ p_edges = <<>>
    /\ p_i = 1
    /\ P_nodes = EmptyDict
    /\ P_adj = EmptyDict
    /\ stats = NoStats
    \* the other scripts are not running
    /\ pc = "idle" /\ stations_df = <<>> /\ ntracks = 0 /\ tracks_df = <<>>
    /\ i = 0 /\ name_to_id = EmptyDict /\ G_nodes = EmptyDict /\ G_edges = {}
    /\ edges_added = 0 /\ missing_stations = <<>> /\ log = <<>>
    /\ stations_for_map = {} /\ edges_for_map = {} /\ rail_edges_total = 0
    /\ n_pc = "idle" /\ n_in = NaNLabel /\ n_once = <<>> /\ n_twice = <<>>
    /\ g_pc = "idle" /\ cities = <<>> /\ unique_stations = <<>> /\ g_idx = 0
    /\ filled = 0 /\ no_coords = 0

\* one iteration of the node loop of build_networkx_graph
PlotAddNode ==
    /\ p_pc = "nodes" /\ p_i <= Len(p_stations)
    /\ LET station == p_stations[p_i]
       IN P_nodes' = Put(P_nodes, station.station_id,
                         [longitude |-> station.longitude,
                          latitude |-> station.latitude,
                          province_code |-> station.province_code])
    /\ p_i' = p_i + 1
    /\ UNCHANGED <<p_pc, p_stations, p_edges, P_adj, stats>>
    /\ UNCHANGED <<netVars, normVars, geoVars>>

PlotEndNodeLoop ==
    /\ p_pc = "nodes" /\ p_i > Len(p_stations)
    /\ p_pc' = "edges"
    /\ UNCHANGED <<p_stations, p_edges, p_i, P_nodes, P_adj, stats>>
    /\ UNCHANGED <<netVars, normVars, geoVars>>

\* nx.Graph.add_edge: one edge per unordered pair, a second add_edge of the
\* pair updates the attributes of the edge that is there
graph_add_edge(adj, u, v, attrs) == Put(adj, {u, v}, attrs)

\* nx.Graph.add_edge creates the endpoints that are not yet nodes, without
\* attributes
graph_add_edge_nodes(N, u, v) ==
    [x \in DOMAIN N \cup {u, v} |->
        IF x \in DOMAIN N THEN N[x]
        ELSE [longitude |-> NaN, latitude |-> NaN, province_code |-> ""]]

\* one iteration of the edge loop of build_networkx_graph, on the next edge row
PlotAddEdge ==
    /\ p_pc = "edges" /\ Len(p_edges) < MaxPlotEdges
    /\ \E source \in PlotEndpoints, target \in PlotEndpoints, len \in PlotLengths :
        LET edge == [source_station |-> source, target_station |-> target,
                     edge_id |-> Len(p_edges) + 1, seg_id |-> Len(p_edges) + 1,
                     length_km |-> len]
        IN /\ p_edges' = Append(p_edges, edge)
           /\ IF source \in DOMAIN P_nodes /\ target \in DOMAIN P_nodes
              THEN /\ P_adj' = graph_add_edge(P_adj, source, target,
                                   [edge_id |-> edge.edge_id, seg_id |-> edge.seg_id,
                                    length_km |-> edge.length_km])
                   /\ P_nodes' = graph_add_edge_nodes(P_nodes, source, target)
              ELSE UNCHANGED <<P_adj, P_nodes>>
    /\ UNCHANGED <<p_pc, p_stations, p_i, stats>>
    /\ UNCHANGED <<netVars, normVars, geoVars>>

\* G.number_of_nodes(), G.number_of_edges()
number_of_nodes(N) == Cardinality(DOMAIN N)
number_of_edges(adj) == Cardinality(DOMAIN adj)

\* the pairs of nodes the edges of the nx.Graph join, in both directions
graph_links(N, adj) ==
    {l \in (DOMAIN N) \X (DOMAIN N) : {l[1], l[2]} \in DOMAIN adj}

\* nx.density: 0 when there is no edge or fewer than 2 nodes, else
\* m / (n (n - 1) / 2), kept as the fraction 2 m / (n (n - 1))
density(N, adj) ==
    LET n == number_of_nodes(N)
        m == number_of_edges(adj)
    IN IF m = 0 \/ n <= 1 THEN [num |-> 0, den |-> 1]
       ELSE [num |-> 2 * m, den |-> n * (n - 1)]

\* the edge rows are exhausted: the graph is returned and main computes stats
PlotStats ==
    /\ p_pc = "edges"
    /\ p_pc' = "done"
    /\ stats' = [nodes |-> number_of_nodes(P_nodes),
                 edges |-> number_of_edges(P_adj),
                 connected_components |->
                     number_connected_components(DOMAIN P_nodes, graph_links(P_nodes, P_adj)),
                 density |-> density(P_nodes, P_adj)]
    /\ UNCHANGED <<p_stations, p_edges, p_i, P_nodes, P_adj>>
    /\ UNCHANGED <<netVars, normVars, geoVars>>

PlotNext == PlotAddNode \/ PlotEndNodeLoop \/ PlotAddEdge \/ PlotStats

----------------------------------------------------------------------------
(* Specifications: one per script *)

SpecNet == NetInit /\ [][NetNext]_vars
SpecNorm == NormInit /\ [][NormNext]_vars
SpecGeo == GeoInit /\ [][GeoNext]_vars
SpecPlot == PlotInit /\ [][PlotNext]_vars

\* either graph builder: main of build network.py or build_networkx_graph
BuildersInit ==
    \/ /\ pc = "index"
       /\ stations_df \in SeqsUpTo(StationRows, MaxStations)
       /\ ntracks \in 0..MaxTracks
       /\ tracks_df = <<>>
       /\ i = 1
       /\ name_to_id = EmptyDict
       /\ G_nodes = EmptyDict
       /\ G_edges = {}
       /\ edges_added = 0
       /\ missing_stations = <<>>
       /\ log = << [tag |-> "stations loaded", n |-> Len(stations_df)],
                   [tag |-> "track records loaded", n |-> ntracks] >>
       /\ stations_for_map = {} /\ edges_for_map = {} /\ rail_edges_total = 0
       /\ n_pc = "idle" /\ n_in = NaNLabel /\ n_once = <<>> /\ n_twice = <<>>
       /\ g_pc = "idle" /\ cities = <<>> /\ unique_stations = <<>> /\ g_idx = 0
       /\ filled = 0 /\ no_coords = 0
       /\ p_pc = "idle" /\ p_stations = <<>> /\ p_edges = <<>> /\ p_i = 0
       /\ P_nodes = EmptyDict /\ P_adj = EmptyDict /\ stats = NoStats
    \/ /\ p_pc = "nodes"
       /\ p_stations \in SeqsUpTo(PlotStationRows, MaxPlotStations)
       /\ p_edges = <<>>
       /\ p_i = 1
       /\ P_nodes = EmptyDict
       /\ P_adj = EmptyDict
       /\ stats = NoStats
       /\ pc = "idle" /\ stations_df = <<>> /\ ntracks = 0 /\ tracks_df = <<>>
       /\ i = 0 /\ name_to_id = EmptyDict /\ G_nodes = EmptyDict /\ G_edges = {}
       /\ edges_added = 0 /\ missing_stations = <<>> /\ log = <<>>
       /\ stations_for_map = {} /\ edges_for_map = {} /\ rail_edges_total = 0
       /\ n_pc = "idle" /\ n_in = NaNLabel /\ n_once = <<>> /\ n_twice = <<>>
       /\ g_pc = "idle" /\ cities = <<>> /\ unique_stations = <<>> /\ g_idx = 0
       /\ filled = 0 /\ no_coords = 0

BuildersNext ==
    \/ IndexStation \/ EndIndexLoop \/ AddNode \/ EndNodeLoop \/ TrackRow
    \/ Finish \/ PrepareMap \/ Analysis
    \/ PlotAddNode \/ PlotEndNodeLoop \/ PlotAddEdge \/ PlotStats

SpecBuilders == BuildersInit /\ [][BuildersNext]_vars

----------------------------------------------------------------------------
(* Properties of the network builder (SpecNet) *)

\* the rows of tracks.csv the edge loop has gone through
Processed == 1..Len(tracks_df)

\* the key of a label is a key of the station name index
Matches(label) == normalize_name(label) \in DOMAIN name_to_id
Resolved(row) == Matches(row.start_station) /\ Matches(row.end_station)
Unmatched(row) == ~Matches(row.start_station) \/ ~Matches(row.end_station)

EdgesOf(k) == {e \in G_edges : e.edge_id = k}

\* main has ended in its except branch on the int() of the edge loop
EdgeLoopRaised ==
    pc = "failed" /\ log[Len(log)].tag = "unexpected error: ValueError"

\* the edge loop is over and main went on
LoopDone == pc \in {"map", "analysis", "done"}

\* C2: the graph has one edge per track record whose two endpoints both
\* resolved, each with the length, year, type and edge_id of its own record, so
\* that records with the same endpoints give parallel edges.
C2_EdgePerResolvedRecord ==
    pc \in {"tracks", "done"} =>
        /\ Cardinality(G_edges) = Cardinality({k \in Processed : Resolved(tracks_df[k])})
        /\ \A k \in Processed :
              Resolved(tracks_df[k]) =>
                 /\ Cardinality(EdgesOf(k)) = 1
                 /\ \A e \in EdgesOf(k) :
                       /\ e.length = tracks_df[k].length
                       /\ e.year_raw = tracks_df[k].year
                       /\ e.type = (IF tracks_df[k].type = "rail pass" THEN "rail_pass"
                                    ELSE tracks_df[k].type)

\* C3: a track record with an endpoint label that matches no station name adds
\* no edge, each unmatched label is in missing_stations, the record does not end
\* the run, and the finished run reports the number of distinct missing labels.
C3_UnmatchedSkipped ==
    /\ \A k \in Processed :
          LET row == tracks_df[k] IN
          Unmatched(row) =>
             /\ EdgesOf(k) = {}
             /\ ~Matches(row.start_station) => row.start_station \in unique_missing
             /\ ~Matches(row.end_station) => row.end_station \in unique_missing
             /\ k = Len(tracks_df) => ~EdgeLoopRaised
    /\ (pc = "done" /\ \E k \in Processed : Unmatched(tracks_df[k])) =>
          \E j \in 1..Len(log) :
             /\ log[j].tag = "stations not found"
             /\ log[j].n = Cardinality(unique_missing)
             /\ log[j].n >= 1

\* C3 witness: the first record has an unmatched label and is reported, and
\* the record after it has become an edge.
C3_Witness ==
    /\ pc = "done" /\ Len(tracks_df) = 2
    /\ Unmatched(tracks_df[1]) /\ ~Matches(tracks_df[1].end_station)
    /\ Matches(tracks_df[1].start_station)
    /\ EdgesOf(1) = {} /\ EdgesOf(2) # {}

\* C4: the year of an edge is None when the year cell of its own record is
\* blank, and the integer of that cell otherwise.
C4_YearOfOwnRecord ==
    \A e \in G_edges :
        /\ e.edge_id \in Processed
        /\ LET cell == tracks_df[e.edge_id].year IN
           /\ cell.kind = "nan" => e.year = None
           /\ cell.kind # "nan" => e.year = [kind |-> "int", val |-> cell.val]

\* C4 witness: an edge without a year beside an edge of 1990, each from its
\* own record.
C4_Witness ==
    /\ Len(tracks_df) = 2
    /\ \E e1 \in EdgesOf(1), e2 \in EdgesOf(2) :
          /\ tracks_df[1].year = Num(1990) /\ e1.year = PyInt(1990)
          /\ tracks_df[2].year = NaN /\ e2.year = None

\* C5: a track endpoint whose label is missing or normalises to the empty
\* string is never resolved: its record gives no edge.
C5_EmptyKeyNeverResolves ==
    \A k \in Processed :
        LET row == tracks_df[k] IN
        (normalize_name(row.start_station) = <<>> \/ normalize_name(row.end_station) = <<>>)
            => EdgesOf(k) = {}

\* the non-empty keys that station records with distinct station_id share
CollisionKeys ==
    {key \in {normalize_name(stations_df[k].station_name) : k \in 1..Len(stations_df)} :
        /\ key # <<>>
        /\ \E a, b \in 1..Len(stations_df) :
              /\ normalize_name(stations_df[a].station_name) = key
              /\ normalize_name(stations_df[b].station_name) = key
              /\ stations_df[a].station_id # stations_df[b].station_id}

\* C7: when station records with distinct station_id share a non-empty key,
\* the finished run has reported the collisions and their number.
C7_CollisionSurfaced ==
    (pc = "done" /\ CollisionKeys # {}) =>
        \E j \in 1..Len(log) :
            log[j].tag = "collisions" /\ log[j].n = Cardinality(CollisionKeys)

\* C8: a track record whose year is text that is not a number does not end
\* the run, and an edge made from it has no year.
C8_BadYearIsMissingYear ==
    \A k \in Processed :
        tracks_df[k].year.kind = "str" =>
            /\ ~EdgeLoopRaised
            /\ \A e \in EdgesOf(k) : e.year = None


\* the log has an entry with this tag and this number
Logged(tag, n) == \E j \in 1..Len(log) : log[j].tag = tag /\ log[j].n = n
LoggedTag(tag) == \E j \in 1..Len(log) : log[j].tag = tag

\* C11: the connectivity analysis gives its statistics for every built graph,
\* also without vertices and without edges: the run does not end in an error
\* once the graph is built, and the finished run has reported the number of
\* components (the number of vertices when there is no edge) and the size of
\* the largest component when there are several.
C11_AnalysisForEveryGraph ==
    /\ pc = "failed" => EdgeLoopRaised
    /\ pc = "done" =>
          LET N == DOMAIN G_nodes
              comps == number_connected_components(N, to_undirected(G_edges))
          IN /\ Logged("connected components", comps)
             /\ G_edges = {} => Logged("connected components", Cardinality(N))
             /\ comps > 1 => LoggedTag("largest component")

\* the type an edge must carry for the type cell t of its record
ExpectedType(t) == IF t = "rail pass" THEN "rail_pass" ELSE t

\* the record passes the test of the edge loop and its year can be read
PassesGuard(row) ==
    /\ Truthy(DictGet(name_to_id, normalize_name(row.start_station)))
    /\ Truthy(DictGet(name_to_id, normalize_name(row.end_station)))
    /\ row.year.kind # "str"

\* C12: 'rail pass' becomes 'rail_pass', every other type is kept as it is,
\* in the table or not, and no record is left out because of its type.
C12_TypeStandardised ==
    \A k \in Processed :
        /\ \A e \in EdgesOf(k) : e.type = ExpectedType(tracks_df[k].type)
        /\ PassesGuard(tracks_df[k]) => EdgesOf(k) # {}

\* C12 witness: an edge of type 'rail_pass' from a 'rail pass' record beside
\* an edge that kept 'rail', a type the table does not have.
C12_Witness ==
    /\ Len(tracks_df) = 2
    /\ tracks_df[1].type = "rail pass" /\ tracks_df[2].type = "rail"
    /\ \E e1 \in EdgesOf(1), e2 \in EdgesOf(2) :
          e1.type = "rail_pass" /\ e2.type = "rail"

\* C13: after the rail edges are collected for the map the graph is what the
\* edge loop built: the same vertices, every edge of the loop with its
\* attributes, the non-rail edges too, and the analysis counts them all.
C13_CollectLeavesGraph ==
    pc \in {"analysis", "done"} =>
        /\ DOMAIN G_nodes = {stations_df[k].station_id : k \in 1..Len(stations_df)}
        /\ Cardinality(G_edges) = edges_added
        /\ \A k \in Processed :
              PassesGuard(tracks_df[k]) =>
                 \E e \in G_edges :
                    /\ e.edge_id = k
                    /\ e.type = ExpectedType(tracks_df[k].type)
                    /\ e.length = tracks_df[k].length
                    /\ e.year_raw = tracks_df[k].year
        /\ rail_edges_total <= edges_added
        /\ pc = "done" =>
              /\ Logged("nodes", Cardinality(DOMAIN G_nodes))
              /\ Logged("edges", edges_added)

\* C13 witness: a finished run with a 'road' edge and a rail edge: one rail
\* edge collected, two edges counted by the analysis.
C13_Witness ==
    /\ pc = "done" /\ rail_edges_total = 1
    /\ \E e \in G_edges : e.type = "road"
    /\ \E e \in G_edges : e.type = "rail_pass"
    /\ Logged("edges", 2)

PastNodes == pc \in {"tracks", "map", "analysis", "done", "failed"}

\* the attributes a vertex takes from a station record
AttrsOfRecord(row) ==
    [name |-> row.station_name, province |-> row.province,
     latitude |-> row.latitude, longitude |-> row.longitude]

\* C14 as stated: after the build the graph has as many vertices as there
\* are station records, each with the attributes of its own record.
C14_VertexPerRecord ==
    PastNodes =>
        /\ Cardinality(DOMAIN G_nodes) = Len(stations_df)
        /\ \A k \in 1..Len(stations_df) :
              /\ stations_df[k].station_id \in DOMAIN G_nodes
              /\ G_nodes[stations_df[k].station_id] = AttrsOfRecord(stations_df[k])

\* the last station record with this station_id
LastRecordOf(id) ==
    stations_df[CHOOSE k \in 1..Len(stations_df) :
                   /\ stations_df[k].station_id = id
                   /\ \A j \in (k + 1)..Len(stations_df) : stations_df[j].station_id # id]

DistinctStationIds ==
    \A a, b \in 1..Len(stations_df) :
        stations_df[a].station_id = stations_df[b].station_id => a = b

\* C14 amended: after the build the graph has one vertex per distinct
\* station_id, with the attributes of the last record of that station_id; with
\* distinct identifiers that is one vertex per record, each with the
\* attributes of its own record.
C14_VertexPerStationId ==
    PastNodes =>
        /\ DOMAIN G_nodes = {stations_df[k].station_id : k \in 1..Len(stations_df)}
        /\ \A id \in DOMAIN G_nodes : G_nodes[id] = AttrsOfRecord(LastRecordOf(id))
        /\ DistinctStationIds =>
              /\ Cardinality(DOMAIN G_nodes) = Len(stations_df)
              /\ \A k \in 1..Len(stations_df) :
                    G_nodes[stations_df[k].station_id] = AttrsOfRecord(stations_df[k])

\* C14 witness: two records with different identifiers and names have become
\* two vertices, each with its own name.
C14_Witness ==
    /\ pc = "done" /\ Len(stations_df) = 2
    /\ stations_df[1].station_id # stations_df[2].station_id
    /\ stations_df[1].station_name # stations_df[2].station_name
    /\ Cardinality(DOMAIN G_nodes) = 2
    /\ G_nodes[stations_df[1].station_id].name = stations_df[1].station_name
    /\ G_nodes[stations_df[2].station_id].name = stations_df[2].station_name

\* Scenario A on the labels of the model: station 1 is named "A" and station 2
\* "b", the one track record goes from "a " (the key of station 1) to "b" with
\* length 10, year 1990 and type 'rail'.
ScenarioA ==
    /\ Len(stations_df) = 2
    /\ stations_df[1].station_id = 1 /\ stations_df[1].station_name = Lab(<<"A">>)
    /\ stations_df[2].station_id = 2 /\ stations_df[2].station_name = Lab(<<"b">>)
    /\ ntracks = 1
    /\ tracks_df = << [start_station |-> Lab(<<"a", " ">>), end_station |-> Lab(<<"b">>),
                       length |-> Num(10), year |-> Num(1990), type |-> "rail",
                       edge_id |-> 1] >>

C17_ResolvedYieldsEdge ==
    \A k \in Processed :
        (Resolved(tracks_df[k]) /\ tracks_df[k].year.kind # "str") =>
            /\ EdgesOf(k) # {}
            /\ tracks_df[k].start_station \notin unique_missing
            /\ tracks_df[k].end_station \notin unique_missing

----------------------------------------------------------------------------
(* Properties of normalize_name (SpecNorm) *)

\* C6: normalize_name is idempotent: normalising the result of normalize_name
\* gives that result again.
C6_Idempotent == n_pc = "twice" => n_twice = n_once

----------------------------------------------------------------------------
(* Properties of the nearest-city assignment (SpecGeo) *)

\* the rows of unique_stations the loop has gone through
GeoProcessed == 1..(g_idx - 1)

\* C1: a station whose latitude or longitude is blank or not a number ends
\* with 'no_coords' and without city, province or distance.
C1_MissingCoordsNoCoords ==
    \A k \in GeoProcessed :
        LET r == unique_stations[k] IN
        (r.latitude.kind \in {"nan", "str"} \/ r.longitude.kind \in {"nan", "str"}) =>
            /\ r.prov_assign_method = "no_coords"
            /\ r.nearest_city = ""
            /\ r.province_code = ""
            /\ r.province_name = ""
            /\ r.distance_to_city_km = NaN

ValidCoords(r) == r.latitude.kind = "num" /\ r.longitude.kind = "num"

\* distance of station row r to city c
DistTo(r, c) == haversine(r.longitude, r.latitude, cities[c].Long, cities[c].Lat).val

\* city c is nearest to r, and the first of the nearest in the input order
FirstNearest(r, c) ==
    /\ \A j \in 1..Len(cities) : DistTo(r, c) <= DistTo(r, j)
    /\ \A j \in 1..(c - 1) : DistTo(r, j) > DistTo(r, c)

\* C9: a station with valid coordinates gets the city at minimal distance, the
\* first such city in the input order, and takes its name, province and
\* distance from that one city.
C9_FirstNearestCity ==
    \A k \in GeoProcessed :
        LET r == unique_stations[k] IN
        ValidCoords(r) =>
            /\ r.prov_assign_method = "assigned_by_nearest_city"
            /\ \E c \in 1..Len(cities) :
                  /\ FirstNearest(r, c)
                  /\ r.nearest_city = cities[c].Name
                  /\ r.province_code = cities[c].Province
                  /\ r.distance_to_city_km = Num(DistTo(r, c))

\* C9 witness: two different cities at the same minimal distance, the station
\* has the first one.
C9_Witness ==
    /\ g_pc = "done" /\ Len(cities) = 2 /\ Len(unique_stations) >= 1
    /\ ValidCoords(unique_stations[1])
    /\ DistTo(unique_stations[1], 1) = DistTo(unique_stations[1], 2)
    /\ cities[1].Name # cities[2].Name
    /\ unique_stations[1].nearest_city = cities[1].Name
    /\ unique_stations[1].province_code = cities[1].Province

\* C16: the assignment runs to completion for any station set and any city
\* set, an empty one too, and gives every station one of the two outcomes, so
\* that filled + no_coords is the number of unique stations at the end.
C16_RunsToCompletion ==
    /\ g_pc # "crashed"
    /\ g_pc = "done" =>
          /\ filled + no_coords = Len(unique_stations)
          /\ \A k \in 1..Len(unique_stations) :
                unique_stations[k].prov_assign_method
                    \in {"assigned_by_nearest_city", "no_coords"}

----------------------------------------------------------------------------
(* Properties of build_networkx_graph (SpecPlot) *)

\* C10: the edge count of the statistics is the number of edge rows whose
\* source and target both exist, parallel and reversed rows counted one by one.
C10_EdgeCountPerRow ==
    p_pc = "done" =>
        stats.edges =
            Cardinality({k \in 1..Len(p_edges) :
                            /\ p_edges[k].source_station \in DOMAIN P_nodes
                            /\ p_edges[k].target_station \in DOMAIN P_nodes})

----------------------------------------------------------------------------
(* Properties of both graph builders (SpecBuilders) *)

\* the station_id values of a station table
StationIdsOf(df) == {df[k].station_id : k \in 1..Len(df)}

\* C18: in both builders, once the node loop is over the vertices are the
\* station_id values of the station records, and they stay so while edges are
\* added: both endpoints of every edge are such vertices, no edge makes a
\* vertex.
C18_EndpointsAreStations ==
    /\ PastNodes =>
          /\ DOMAIN G_nodes = StationIdsOf(stations_df)
          /\ \A e \in G_edges : e.u \in StationIdsOf(stations_df)
                                /\ e.v \in StationIdsOf(stations_df)
    /\ p_pc \in {"edges", "done"} =>
          /\ DOMAIN P_nodes = StationIdsOf(p_stations)
          /\ \A l \in DOMAIN P_adj : l \subseteq StationIdsOf(p_stations)

\* C18 witness: the network builder has finished with an edge between two
\* stations beside a record it left out for a label without station.
C18_Witness ==
    /\ pc = "done" /\ Len(tracks_df) = 2
    /\ G_edges # {} /\ missing_stations # <<>>
    /\ DOMAIN G_nodes = StationIdsOf(stations_df)

====
